---- MODULE Spec2Model ----
(***************************************************************************)
(* h5pickle: pickle-able hdf5 files, groups and datasets behind a          *)
(* process-wide LRU cache of open files (src/h5pickle/__init__.py).        *)
(*                                                                         *)
(* State: the File objects created so far, the module-level cache (its     *)
(* key -> File mapping in dict order and its recency order), the builtin   *)
(* hash of this process, one Group proxy, one Dataset proxy and one pickle *)
(* held by the caller, the outcome of the last operation, and for every    *)
(* descriptor the File its last cached acquisition returned.  For the      *)
(* threaded runs: the module-level RLock and every thread's position in    *)
(* File.__new__ / File.close; recency records the cached keys in the order *)
(* of their latest acquisition.                                            *)
(***************************************************************************)
EXTENDS Integers, Sequences, FiniteSets, TLC

\* ------------------------------------------------------------------ bounds
\* cache = LRUFileCache(1000), scaled down so that evictions happen
CacheMaxSize == 2
\* number of File objects (native opens) one behaviour may create
MaxFiles == 4
\* number of those that may be opened with skip_cache=True
MaxBypass == 1
\* number of File objects in the behaviours that pickle
PickleFiles == 1
\* number of File objects the caller may have before pickles are loaded
LoadFiles == 3
\* the same where the pickles are of groups and datasets
ProxyFiles == 2
\* range of the builtin hash(); Python's is 64 bits wide over an unbounded
\* set of argument texts, here it is scaled with the handful of texts below
HashSpace == 3
\* number of threads of the threaded runs
NumThreads == 2
\* number of File(...) calls the threads make together
MaxCalls == 3

Paths == {"a.h5", "b.h5"}
\* the paths that are also opened with an explicit skip_cache
SkipPaths == {"a.h5"}

VARIABLES hash, files, cache, grp, ds, pkl, last, lastFor, lock, thr, recency

vars == <<hash, files, cache, grp, ds, pkl, last, lastFor, lock, thr, recency>>

\* the state of the threaded runs and of the recency record: the one-caller
\* operations below leave it alone
aux == <<lock, thr, recency>>

\* --------------------------------------------------------- python values
Str(s) == [t |-> "str", v |-> s]
Bool(b) == [t |-> "bool", v |-> IF b THEN "True" ELSE "False"]
IntObj(n) == [t |-> "int", n |-> n]
FileObj(id) == [t |-> "File", n |-> id]

\* `cache[key] == self.hsh`: a File compared with an int.  Objects of
\* different types are equal only when they are the same value.
PyEq(x, y) == x = y

\* ------------------------------------------------------ sequence helpers
RECURSIVE SeqFilterOut(_, _)
SeqFilterOut(s, k) ==
    IF s = <<>> THEN <<>>
    ELSE IF Head(s) = k THEN SeqFilterOut(Tail(s), k)
    ELSE <<Head(s)>> \o SeqFilterOut(Tail(s), k)

\* ---------------------------------------------------------------- json
\* json.dumps of one value, as the sequence of the text's tokens
JsonValue(x) ==
    IF x.t = "str" THEN <<"\"", x.v, "\"">>
    ELSE IF x.v = "True" THEN <<"true">> ELSE <<"false">>

RECURSIVE JsonItems(_)
JsonItems(xs) ==
    IF xs = <<>> THEN <<>>
    ELSE IF Len(xs) = 1 THEN JsonValue(xs[1])
    ELSE JsonValue(xs[1]) \o <<", ">> \o JsonItems(Tail(xs))

\* json.dumps(args): a tuple is written as a JSON array
JsonDumpsArgs(args) == <<"[">> \o JsonItems(args) \o <<"]">>

\* alphabetical order of the keyword names used here
KeyRank(k) ==
    CASE k = "mode" -> 1
      [] k = "skip_cache" -> 2
      [] OTHER -> 3

RECURSIVE InsertSorted(_, _)
InsertSorted(kv, s) ==
    IF s = <<>> THEN <<kv>>
    ELSE IF KeyRank(kv[1]) <= KeyRank(Head(s)[1]) THEN <<kv>> \o s
    ELSE <<Head(s)>> \o InsertSorted(kv, Tail(s))

RECURSIVE SortKeys(_)
SortKeys(kwargs) ==
    IF kwargs = <<>> THEN <<>>
    ELSE InsertSorted(Head(kwargs), SortKeys(Tail(kwargs)))

RECURSIVE JsonPairs(_)
JsonPairs(kvs) ==
    IF kvs = <<>> THEN <<>>
    ELSE <<"\"", kvs[1][1], "\"", ": ">> \o JsonValue(kvs[1][2])
         \o (IF Len(kvs) = 1 THEN <<>> ELSE <<", ">> \o JsonPairs(Tail(kvs)))

\* json.dumps(kwargs, sort_keys=True)
JsonDumpsKwargs(kwargs) == <<"{">> \o JsonPairs(SortKeys(kwargs)) \o <<"}">>

ArgText(args, kwargs) == JsonDumpsArgs(args) \o JsonDumpsKwargs(kwargs)

\* ------------------------------------------------------------ call forms
\* File(path, mode='r') and File(path, 'r'); then File(path, mode='r') with
\* skip_cache=True before or after the mode keyword, and File(path, 'r',
\* skip_cache=False)
KwMode == <<"mode", Str("r")>>
KwSkip(b) == <<"skip_cache", Bool(b)>>

Calls ==
    UNION { { [args |-> <<Str(p)>>, kwargs |-> <<KwMode>>],
              [args |-> <<Str(p), Str("r")>>, kwargs |-> <<>>] } : p \in Paths }

SkipCalls ==
    UNION { { [args |-> <<Str(p)>>, kwargs |-> <<KwMode, KwSkip(TRUE)>>],
              [args |-> <<Str(p)>>, kwargs |-> <<KwSkip(TRUE), KwMode>>],
              [args |-> <<Str(p), Str("r")>>, kwargs |-> <<KwSkip(FALSE)>>] }
            : p \in SkipPaths }

InputCalls == Calls \cup SkipCalls

\* the file name is the first positional argument
PathOf(args) == args[1].v

\* the calls the threads make: both forms for the first path, the keyword
\* form for the others
ThreadCalls ==
    { c \in Calls : PathOf(c.args) \in SkipPaths \/ c.kwargs # <<>> }

Texts == { ArgText(c.args, c.kwargs) : c \in Calls }

\* kwargs.pop('skip_cache', False)
PopSkipCache(kwargs) ==
    IF \E i \in 1..Len(kwargs) : kwargs[i][1] = "skip_cache"
    THEN (LET i == CHOOSE j \in 1..Len(kwargs) : kwargs[j][1] = "skip_cache"
          IN kwargs[i][2].v = "True")
    ELSE FALSE

RECURSIVE DropKey(_, _)
DropKey(kwargs, k) ==
    IF kwargs = <<>> THEN <<>>
    ELSE IF Head(kwargs)[1] = k THEN DropKey(Tail(kwargs), k)
    ELSE <<Head(kwargs)>> \o DropKey(Tail(kwargs), k)

\* the open arguments of a call: what is left after the pop
Desc(call) == [args |-> call.args, kwargs |-> DropKey(call.kwargs, "skip_cache")]

NoDesc == [args |-> <<>>, kwargs |-> <<>>]

\* arghash(*args, **kwargs) under this process's string hash
arghash(args, kwargs) == hash[ArgText(args, kwargs)]


\* ------------------------------------------------ cachetools.LRUCache
\* cache.data: the key -> File pairs in dict (insertion) order;
\* cache.order: the keys from least to most recently used
CacheKeys(c) == [i \in 1..Len(c.data) |-> c.data[i][1]]

CacheContains(c, k) == \E i \in 1..Len(c.data) : c.data[i][1] = k

CacheValue(c, k) ==
    c.data[CHOOSE i \in 1..Len(c.data) : c.data[i][1] = k][2]

CacheValues(c) == { c.data[i][2] : i \in 1..Len(c.data) }

\* LRUCache.__update: move the key to the most recent end
Touch(order, k) == SeqFilterOut(order, k) \o <<k>>

\* LRUCache.__getitem__
CacheGetItem(c, k) == [c EXCEPT !.order = Touch(c.order, k)]

RECURSIVE DropPair(_, _)
DropPair(data, k) ==
    IF data = <<>> THEN <<>>
    ELSE IF Head(data)[1] = k THEN DropPair(Tail(data), k)
    ELSE <<Head(data)>> \o DropPair(Tail(data), k)

\* LRUCache.__delitem__
CacheDelItem(c, k) ==
    [data |-> DropPair(c.data, k), order |-> SeqFilterOut(c.order, k)]

\* ------------------------------------------------------------ File.close
\* the loop `for key in list(cache.keys())` of File.close: every cache[key]
\* is a __getitem__ (it refreshes the key), the entry is deleted when the
\* stored File compares equal to self.hsh
\* a loop that deletes the entries whose File carries the key self.hsh
RECURSIVE CloseLoopByHsh(_, _, _)
CloseLoopByHsh(c, keys, hsh) ==
    IF keys = <<>> THEN c
    ELSE LET k == Head(keys)
             c1 == CacheGetItem(c, k)
             c2 == IF k = hsh THEN CacheDelItem(c1, k) ELSE c1
         IN CloseLoopByHsh(c2, Tail(keys), hsh)

RECURSIVE CloseLoop(_, _, _)
CloseLoop(c, keys, hsh) ==
    IF keys = <<>> THEN c
    ELSE LET k == Head(keys)
             c1 == CacheGetItem(c, k)
             c2 == IF PyEq(FileObj(CacheValue(c, k)), IntObj(hsh))
                   THEN CacheDelItem(c1, k)
                   ELSE c1
         IN CloseLoop(c2, Tail(keys), hsh)

\* File.close(self) on the state st = [files, cache]
FileClose(st, id) ==
    [files |-> [st.files EXCEPT ![id].valid = FALSE],
     cache |-> CloseLoop(st.cache, CacheKeys(st.cache), st.files[id].hsh)]

\* ------------------------------------------------- LRUFileCache.popitem
\* the least recently used pair is removed, then its value is closed
PopItem(st) ==
    LET k == st.cache.order[1]
        val == CacheValue(st.cache, k)
        c1 == CacheDelItem(CacheGetItem(st.cache, k), k)
        closed == FileClose([files |-> st.files, cache |-> c1], val)
    IN [files |-> [closed.files EXCEPT ![val].evicted = TRUE],
        cache |-> closed.cache]

\* Cache.__setitem__ / LRUCache.__setitem__ for a key that is not stored:
\* pop items while the cache is full, then store and refresh the key
RECURSIVE MakeRoom(_)
MakeRoom(st) ==
    IF Len(st.cache.data) + 1 > CacheMaxSize /\ st.cache.order # <<>>
    THEN MakeRoom(PopItem(st))
    ELSE st

\* a __setitem__ that loses the pair: the cache never learns the new File
CacheSetItemLost(st, k, id) == st

CacheSetItem(st, k, id) ==
    LET st1 == IF CacheContains(st.cache, k) THEN st ELSE MakeRoom(st)
        data1 == IF CacheContains(st1.cache, k)
                 THEN [i \in 1..Len(st1.cache.data) |->
                         IF st1.cache.data[i][1] = k THEN <<k, id>>
                         ELSE st1.cache.data[i]]
                 ELSE Append(st1.cache.data, <<k, id>>)
    IN [files |-> st1.files,
        cache |-> [data |-> data1, order |-> Touch(st1.cache.order, k)]]

\* ------------------------------------------------------------- File.__new__
NewFile(args, kwargs, skip, hsh) ==
    [init_args |-> args, init_kwargs |-> kwargs, skip_cache |-> skip,
     hsh |-> hsh, valid |-> TRUE, evicted |-> FALSE]

\* a File.__new__ that stores the new File whatever skip_cache says
FileNewStoresBypass(st, call) ==
    LET skip == PopSkipCache(call.kwargs)
        kwargs == DropKey(call.kwargs, "skip_cache")
        hsh == arghash(call.args, kwargs)
    IN IF skip \/ ~CacheContains(st.cache, hsh)
       THEN LET id == Len(st.files) + 1
                st1 == [files |-> Append(st.files,
                                    NewFile(call.args, kwargs, skip, hsh)),
                        cache |-> st.cache]
            IN [st |-> CacheSetItem(st1, hsh, id), self |-> id, opened |-> TRUE]
       ELSE LET id == CacheValue(st.cache, hsh)
            IN [st |-> [files |-> st.files,
                        cache |-> CacheGetItem(st.cache, hsh)],
                self |-> id, opened |-> FALSE]

\* File(*args, **kwargs): the state after the call and the object returned
FileNew(st, call) ==
    LET skip == PopSkipCache(call.kwargs)
        kwargs == DropKey(call.kwargs, "skip_cache")
        hsh == arghash(call.args, kwargs)
    IN IF skip \/ ~CacheContains(st.cache, hsh)
       THEN LET id == Len(st.files) + 1
                st1 == [files |-> Append(st.files,
                                    NewFile(call.args, kwargs, skip, hsh)),
                        cache |-> st.cache]
                st2 == IF ~skip THEN CacheSetItem(st1, hsh, id) ELSE st1
            IN [st |-> [st2 EXCEPT !.files[id].hsh = hsh],
                self |-> id, opened |-> TRUE]
       ELSE LET id == CacheValue(st.cache, hsh)
            IN [st |-> [files |-> [st.files EXCEPT ![id].hsh = hsh],
                        cache |-> CacheGetItem(st.cache, hsh)],
                self |-> id, opened |-> FALSE]

\* whether the call has to open a native file (bounded by MaxFiles)
Opens(st, call) ==
    PopSkipCache(call.kwargs)
    \/ ~CacheContains(st.cache, arghash(call.args, Desc(call).kwargs))


\* ------------------------------------------------------- the hdf5 files
\* every file holds the group /g with the subgroup /g/h, and the datasets
\* /d and /g/d; names are kept as the sequence of their components
GroupNames == { <<"g">>, <<"g", "h">> }
DatasetNames == { <<"d">>, <<"g", "d">> }

\* h5py.File.mode of an open file: 'r' for read-only, 'r+' otherwise
GivenMode(f) ==
    IF Len(f.init_args) >= 2 THEN f.init_args[2].v
    ELSE f.init_kwargs[CHOOSE i \in 1..Len(f.init_kwargs) :
                          f.init_kwargs[i][1] = "mode"][2].v

FileMode(f) == IF GivenMode(f) = "r" THEN "r" ELSE "r+"

\* ---------------------------------------------------------------- proxies
\* Group: name, file_info (a File, 0 when the attribute is not set) and id
\* (the File whose native handle the group's id belongs to)
NoGroup == [name |-> <<>>, file_info |-> 0, id |-> 0]

\* Dataset.__init__(self, dataset)
NoDataset ==
    [file_name |-> "", file_mode |-> "", dataset_name |-> <<>>, dataset |-> 0]

DatasetInit(fs, id, name) ==
    [file_name |-> fs[id].init_args[1].v, file_mode |-> FileMode(fs[id]),
     dataset_name |-> name, dataset |-> id]

\* the call File(self.file_name, mode=self.file_mode) of Dataset
DatasetCall(d) ==
    [args |-> <<Str(d.file_name)>>, kwargs |-> << <<"mode", Str(d.file_mode)>> >>]

\* -------------------------------------------------------------- pickling
NoPickle == [cls |-> "None"]
NoState == [none |-> TRUE]

\* File.__getnewargs_ex__ and File.__getstate__
FileGetNewArgsEx(f) ==
    [args |-> f.init_args,
     kwargs |-> Append(f.init_kwargs, KwSkip(f.skip_cache))]

FileGetState(f) == NoState

FileReduce(f) ==
    [cls |-> "File", newargs |-> FileGetNewArgsEx(f), state |-> FileGetState(f)]

\* Group.__getstate__
GroupGetState(fs, g) == [name |-> g.name, file |-> FileReduce(fs[g.file_info])]

\* a __getstate__ that keeps the whole __dict__
DatasetGetStateWhole(d) == d

\* Dataset.__getstate__: the __dict__ without 'dataset'
DatasetGetState(d) == [a \in (DOMAIN d) \ {"dataset"} |-> d[a]]

\* ---------------------------------------------------------------- history
\* last: the outcome of the last operation.  op: the operation, desc: the
\* descriptor acquired (NoDesc if none), skip: skip_cache, ret: the File
\* returned or operated on, opened: a native open was performed, ok: the
\* operation did not raise, prior: the File the previous cached acquisition
\* of desc returned (0 if none), priorState: what had become of it when this
\* operation began
Last(op, desc, skip, ret, opened, ok, prior, priorState) ==
    [op |-> op, desc |-> desc, skip |-> skip, ret |-> ret, opened |-> opened,
     ok |-> ok, prior |-> prior, priorState |-> priorState]

FileState(fs, id) ==
    IF id = 0 THEN "none"
    ELSE IF fs[id].evicted THEN "evicted"
    ELSE IF fs[id].valid THEN "open"
    ELSE "closed"

\* lastFor[d]: the File the last cached File(d) returned, 0 before the first
LastForAfter(call, r) ==
    IF PopSkipCache(call.kwargs) THEN lastFor
    ELSE [lastFor EXCEPT ![Desc(call)] = r.self]

NBypass(fs) == Cardinality({ i \in 1..Len(fs) : fs[i].skip_cache })

\* ---------------------------------------------------------------- threads
\* lock = RLock(): its owner (0 when free) and how often the owner holds it
Threads == 1..NumThreads

NoLock == [owner |-> 0, count |-> 0]

\* a lock any thread passes at any time
CanLockAlways(l, t) == TRUE

\* a lock that is not reentrant (Lock instead of RLock)
CanLockNotReentrant(l, t) == l.owner = 0

\* RLock.acquire() returns when the lock is free or held by the caller
CanLock(l, t) == l.owner \in {0, t}

Locked(l, t) ==
    [owner |-> t, count |-> IF l.owner = t THEN l.count + 1 ELSE 1]

\* RLock.release(): leaving one `with lock`
Unlock(l) == IF l.count <= 1 THEN NoLock ELSE [l EXCEPT !.count = @ - 1]

\* an exception leaves every `with lock` the thread is in
Unwound(l, t) == IF l.owner = t THEN NoLock ELSE l

NoCache == [data |-> <<>>, order |-> <<>>]

\* a thread: pc its position, calls the number of File(...) calls it has
\* made, call the arguments of the current one, skip and hsh the locals of
\* File.__new__, self the File made or found (0: none), val the value
\* popitem took out, opened whether the call opened a File, entry the cache
\* as it was when the call took the lock (kept until the open)
Idle ==
    [pc |-> "idle", calls |-> 0, call |-> NoDesc, skip |-> FALSE, hsh |-> 0,
     self |-> 0, val |-> 0, opened |-> FALSE, entry |-> NoCache]

\* ------------------------------------------------------------------- Init
\* the texts in a fixed order; hash values are used as dictionary keys only,
\* so they are taken up to renaming: the first text hashes to 0 and every
\* other text to a value used before or to the next unused one
TextSeq ==
    << ArgText(<<Str("a.h5")>>, <<KwMode>>),
       ArgText(<<Str("a.h5"), Str("r")>>, <<>>),
       ArgText(<<Str("b.h5")>>, <<KwMode>>),
       ArgText(<<Str("b.h5"), Str("r")>>, <<>>) >>

Canonical(h) ==
    \A i \in 1..Len(TextSeq) :
        \/ h[TextSeq[i]] = 0
        \/ \E j \in 1..(i - 1) : h[TextSeq[i]] <= h[TextSeq[j]] + 1

\* the module is imported: empty cache, no File yet; the string hash of the
\* process is fixed at start-up
Init ==
    /\ hash \in { h \in [Texts -> 0..(HashSpace - 1)] : Canonical(h) }
    /\ files = <<>>
    /\ cache = NoCache
    /\ grp = NoGroup
    /\ ds = NoDataset
    /\ pkl = NoPickle
    /\ last = Last("init", NoDesc, FALSE, 0, FALSE, TRUE, 0, "none")
    /\ lastFor = [x \in Calls |-> 0]
    /\ lock = NoLock
    /\ thr = [t \in Threads |-> Idle]
    /\ recency = <<>>

State == [files |-> files, cache |-> cache]

\* ---------------------------------------------------------------- actions
\* f = File(*args, **kwargs)
Acquire(call) ==
    LET d == Desc(call)
        skip == PopSkipCache(call.kwargs)
        r == FileNew(State, call)
    IN /\ Opens(State, call) => Len(files) < MaxFiles
       /\ skip => NBypass(files) < MaxBypass
       /\ files' = r.st.files
       /\ cache' = r.st.cache
       /\ last' = Last("File", d, skip, r.self, r.opened, TRUE,
                       IF skip THEN 0 ELSE lastFor[d],
                       IF skip THEN "none" ELSE FileState(files, lastFor[d]))
       /\ lastFor' = LastForAfter(call, r)
       /\ UNCHANGED <<hash, grp, ds, pkl>>

\* f = File(*args, **kwargs) for arguments not used in a cached call before
AcquireFresh(call) ==
    /\ lastFor[Desc(call)] = 0
    /\ Acquire(call)

\* f.close()
Close(id) ==
    LET st1 == FileClose(State, id)
    IN /\ files' = st1.files
       /\ cache' = st1.cache
       /\ last' = Last("close", NoDesc, FALSE, id, FALSE, TRUE, 0, "none")
       /\ UNCHANGED <<hash, grp, ds, pkl, lastFor>>

\* f[name] for name "g" (a group) or "d" (a dataset): File.__getitem__
FileGetItem(id, name) ==
    LET ok == files[id].valid
    IN /\ grp' = IF ok /\ <<name>> \in GroupNames
                 THEN [name |-> <<name>>, file_info |-> id, id |-> id]
                 ELSE grp
       /\ ds' = IF ok /\ <<name>> \in DatasetNames
                THEN DatasetInit(files, id, <<name>>)
                ELSE ds
       /\ last' = Last("File.getitem", NoDesc, FALSE, id, FALSE, ok, 0, "none")
       /\ UNCHANGED <<hash, files, cache, pkl, lastFor>>

\* a Group.__getitem__ that does not copy file_info to the group it returns
GroupGetItemNoFileInfo(name) ==
    LET child == Append(grp.name, name)
        ok == files[grp.id].valid /\ child \in GroupNames \cup DatasetNames
    IN /\ grp # NoGroup
       /\ grp' = IF ok /\ child \in GroupNames
                 THEN [name |-> child, file_info |-> 0, id |-> grp.id]
                 ELSE grp
       /\ ds' = IF ok /\ child \in DatasetNames
                THEN DatasetInit(files, grp.id, child)
                ELSE ds
       /\ last' = Last("Group.getitem", NoDesc, FALSE, grp.id, FALSE, ok, 0, "none")
       /\ UNCHANGED <<hash, files, cache, pkl, lastFor>>

\* a Group.__getitem__ that first re-acquires the root File from file_info's
\* arguments and looks the name up there
GroupGetItemResolving(name) ==
    LET root == files[grp.file_info]
        call == [args |-> root.init_args, kwargs |-> root.init_kwargs]
        r == FileNew(State, call)
        child == Append(grp.name, name)
        ok == r.st.files[r.self].valid /\ child \in GroupNames \cup DatasetNames
    IN /\ grp # NoGroup
       /\ Opens(State, call) => Len(files) < MaxFiles
       /\ files' = r.st.files
       /\ cache' = r.st.cache
       /\ grp' = IF ok /\ child \in GroupNames
                 THEN [name |-> child, file_info |-> grp.file_info, id |-> r.self]
                 ELSE grp
       /\ ds' = IF ok /\ child \in DatasetNames
                THEN DatasetInit(r.st.files, r.self, child)
                ELSE ds
       /\ last' = Last("Group.getitem", NoDesc, FALSE, grp.id, r.opened, ok,
                       0, "none")
       /\ lastFor' = LastForAfter(call, r)
       /\ UNCHANGED <<hash, pkl>>

\* g[name]: Group.__getitem__ looks the name up through the group's own id
GroupGetItem(name) ==
    LET child == Append(grp.name, name)
        found == files[grp.id].valid /\ child \in GroupNames \cup DatasetNames
        ok == found /\ (child \in GroupNames => grp.file_info # 0)
    IN /\ grp # NoGroup
       /\ grp' = IF ok /\ child \in GroupNames
                 THEN [name |-> child, file_info |-> grp.file_info, id |-> grp.id]
                 ELSE grp
       /\ ds' = IF ok /\ child \in DatasetNames
                THEN DatasetInit(files, grp.id, child)
                ELSE ds
       /\ last' = Last("Group.getitem", NoDesc, FALSE, grp.id, FALSE, ok, 0, "none")
       /\ UNCHANGED <<hash, files, cache, pkl, lastFor>>

\* File(self.file_name, mode=self.file_mode)[self.dataset_name], the first
\* statement of Dataset.__getattr__ and of Dataset.__getitem__; the access
\* that follows uses the dataset found there
DatasetResolve(op) ==
    LET call == DatasetCall(ds)
        r == FileNew(State, call)
        ok == r.st.files[r.self].valid /\ ds.dataset_name \in DatasetNames
    IN /\ ds # NoDataset
       /\ Opens(State, call) => Len(files) < MaxFiles
       /\ files' = r.st.files
       /\ cache' = r.st.cache
       /\ last' = Last(op, Desc(call), FALSE, r.self, r.opened, ok,
                       lastFor[Desc(call)],
                       FileState(files, lastFor[Desc(call)]))
       /\ lastFor' = LastForAfter(call, r)
       /\ UNCHANGED <<hash, grp, ds, pkl>>

\* d.attr
DatasetGetAttr == DatasetResolve("Dataset.getattr")

\* d[item]
DatasetGetItem == DatasetResolve("Dataset.getitem")

\* pickle.dumps(f)
PickleFile(id) ==
    /\ pkl' = FileReduce(files[id])
    /\ last' = Last("pickle", NoDesc, FALSE, id, FALSE, TRUE, 0, "none")
    /\ UNCHANGED <<hash, files, cache, grp, ds, lastFor>>

\* pickle.dumps(g): needs the group's name and its file_info
PickleGroup ==
    LET ok == files[grp.id].valid /\ grp.file_info # 0
    IN /\ grp # NoGroup
       /\ pkl' = IF ok THEN [cls |-> "Group", state |-> GroupGetState(files, grp)]
                 ELSE pkl
       /\ last' = Last("pickle", NoDesc, FALSE, grp.id, FALSE, ok, 0, "none")
       /\ UNCHANGED <<hash, files, cache, grp, ds, lastFor>>

\* pickle.dumps(d)
PickleDataset ==
    /\ ds # NoDataset
    /\ pkl' = [cls |-> "Dataset", state |-> DatasetGetState(ds)]
    /\ last' = Last("pickle", NoDesc, FALSE, ds.dataset, FALSE, TRUE, 0, "none")
    /\ UNCHANGED <<hash, files, cache, grp, ds, lastFor>>

\* a pickle.loads of a File that asks for a File outside the cache whatever
\* the pickle says
UnpickleFileNewBypassing(st, p) ==
    FileNew(st, [args |-> p.newargs.args,
                 kwargs |-> Append(DropKey(p.newargs.kwargs, "skip_cache"),
                                   KwSkip(TRUE))])

\* pickle.loads of a File pickle: File.__new__(File, *args, **kwargs) with
\* the pair of __getnewargs_ex__; the state is None, nothing is set after
UnpickleFileNew(st, p) == FileNew(st, p.newargs)

\* pickle.loads(p), p the pickle of a File
UnpickleFile ==
    LET call == pkl.newargs
        d == Desc(call)
        skip == PopSkipCache(call.kwargs)
        r == UnpickleFileNew(State, pkl)
    IN /\ pkl.cls = "File"
       /\ r.opened => Len(files) < MaxFiles
       /\ r.opened /\ skip => NBypass(files) < MaxBypass
       /\ files' = r.st.files
       /\ cache' = r.st.cache
       /\ last' = Last("loads.File", d, skip, r.self, r.opened, TRUE,
                       IF skip THEN 0 ELSE lastFor[d],
                       IF skip THEN "none" ELSE FileState(files, lastFor[d]))
       /\ lastFor' = LastForAfter(call, r)
       /\ UNCHANGED <<hash, grp, ds, pkl>>

\* pickle.loads(p), p the pickle of a Group: state['file'] is loaded as a
\* File, Group.__setstate__ looks state['name'] up in it and takes the id of
\* what it finds; file_info is not set on the new Group
UnpickleGroup ==
    LET call == pkl.state.file.newargs
        d == Desc(call)
        skip == PopSkipCache(call.kwargs)
        r == UnpickleFileNew(State, pkl.state.file)
        ok == r.st.files[r.self].valid /\ pkl.state.name \in GroupNames
    IN /\ pkl.cls = "Group"
       /\ r.opened => Len(files) < MaxFiles
       /\ r.opened /\ skip => NBypass(files) < MaxBypass
       /\ files' = r.st.files
       /\ cache' = r.st.cache
       /\ grp' = IF ok
                 THEN [name |-> pkl.state.name, file_info |-> 0, id |-> r.self]
                 ELSE grp
       /\ last' = Last("loads.Group", d, skip, r.self, r.opened, ok,
                       IF skip THEN 0 ELSE lastFor[d],
                       IF skip THEN "none" ELSE FileState(files, lastFor[d]))
       /\ lastFor' = LastForAfter(call, r)
       /\ UNCHANGED <<hash, ds, pkl>>

\* Dataset.__setstate__(state): the __dict__ is the state (no 'dataset'
\* attribute), then File(self.file_name, mode=self.file_mode)[...] is
\* evaluated and bound to the local name only
DatasetSetState(state) ==
    [file_name |-> state.file_name, file_mode |-> state.file_mode,
     dataset_name |-> state.dataset_name, dataset |-> 0]

\* pickle.loads(p), p the pickle of a Dataset
UnpickleDataset ==
    LET new == DatasetSetState(pkl.state)
        call == DatasetCall(new)
        r == FileNew(State, call)
        ok == r.st.files[r.self].valid /\ new.dataset_name \in DatasetNames
    IN /\ pkl.cls = "Dataset"
       /\ r.opened => Len(files) < MaxFiles
       /\ files' = r.st.files
       /\ cache' = r.st.cache
       /\ ds' = new
       /\ last' = Last("loads.Dataset", Desc(call), FALSE, r.self, r.opened, ok,
                       lastFor[Desc(call)],
                       FileState(files, lastFor[Desc(call)]))
       /\ lastFor' = LastForAfter(call, r)
       /\ UNCHANGED <<hash, grp, pkl>>

\* ------------------------------------------------------ recency record
\* recency: the keys stored in the cache, from the one whose latest
\* acquisition (hit or insertion) is the oldest to the latest acquired
RECURSIVE KeepStored(_, _)
KeepStored(keys, c) ==
    IF keys = <<>> THEN <<>>
    ELSE IF CacheContains(c, Head(keys))
         THEN <<Head(keys)>> \o KeepStored(Tail(keys), c)
         ELSE KeepStored(Tail(keys), c)

\* f = File(*args, **kwargs), recorded
RecordedAcquire(call) ==
    LET hsh == arghash(call.args, Desc(call).kwargs)
    IN /\ Acquire(call)
       /\ recency' = IF PopSkipCache(call.kwargs)
                     THEN KeepStored(recency, cache')
                     ELSE KeepStored(SeqFilterOut(recency, hsh), cache')
                              \o <<hsh>>
       /\ UNCHANGED <<lock, thr>>

\* f.close(), recorded: no acquisition
RecordedClose(id) ==
    /\ Close(id)
    /\ recency' = KeepStored(recency, cache')
    /\ UNCHANGED <<lock, thr>>

\* ------------------------------------------------- File.__new__ by threads
\* what the threaded steps leave alone
solo == <<hash, grp, ds, pkl, recency>>

hist == <<last, lastFor>>

RECURSIVE CallsMade(_, _)
CallsMade(th, n) == IF n = 0 THEN 0 ELSE th[n].calls + CallsMade(th, n - 1)

\* the thread is back at its caller
Back(t) == [Idle EXCEPT !.calls = thr[t].calls]

\* the outcome of the File(...) call of thread t, as it ends
Outcome(t, ret, ok) ==
    LET d == Desc(thr[t].call)
        skip == PopSkipCache(thr[t].call.kwargs)
    IN Last("File", d, skip, ret, thr[t].opened, ok,
            IF skip THEN 0 ELSE lastFor[d],
            IF skip THEN "none" ELSE FileState(files, lastFor[d]))

\* thread t calls File(*args, **kwargs)
ThreadCall(t, call) ==
    /\ thr[t].pc = "idle"
    /\ CallsMade(thr, NumThreads) < MaxCalls
    /\ thr' = [thr EXCEPT ![t] =
                 [Idle EXCEPT !.pc = "new.enter", !.calls = thr[t].calls + 1,
                              !.call = call]]
    /\ UNCHANGED <<files, cache, lock>>
    /\ UNCHANGED <<solo, hist>>

\* `with lock:` of File.__new__, then skip_cache = kwargs.pop(...),
\* hsh = arghash(...) and the test `skip_cache or hsh not in cache`
NewEnter(t) ==
    LET call == thr[t].call
        skip == PopSkipCache(call.kwargs)
        hsh == arghash(call.args, DropKey(call.kwargs, "skip_cache"))
    IN /\ thr[t].pc = "new.enter"
       /\ CanLock(lock, t)
       /\ lock' = Locked(lock, t)
       /\ thr' = [thr EXCEPT ![t].skip = skip, ![t].hsh = hsh,
                             ![t].entry = cache,
                             ![t].pc = IF skip \/ ~CacheContains(cache, hsh)
                                       THEN "new.open" ELSE "new.hit"]
       /\ UNCHANGED <<files, cache>>
       /\ UNCHANGED <<solo, hist>>

\* self = object.__new__(cls); h5py.File.__init__(self, ...) and the three
\* attributes: the native open succeeds
NewOpen(t) ==
    LET call == thr[t].call
        kwargs == DropKey(call.kwargs, "skip_cache")
    IN /\ thr[t].pc = "new.open"
       /\ Len(files) < MaxFiles
       /\ thr[t].skip => NBypass(files) < MaxBypass
       /\ files' = Append(files,
                          NewFile(call.args, kwargs, thr[t].skip, thr[t].hsh))
       /\ thr' = [thr EXCEPT ![t].self = Len(files) + 1, ![t].opened = TRUE,
                             ![t].entry = NoCache,
                             ![t].pc = IF thr[t].skip THEN "new.return"
                                       ELSE "new.store"]
       /\ UNCHANGED <<cache, lock>>
       /\ UNCHANGED <<solo, hist>>

\* a failing native open that leaves the lock with the thread
NewOpenFailsLocked(t) ==
    /\ thr[t].pc = "new.open"
    /\ thr' = [thr EXCEPT ![t] = Back(t)]
    /\ last' = Outcome(t, 0, FALSE)
    /\ UNCHANGED <<files, cache, lock, lastFor>>
    /\ UNCHANGED solo

\* h5py.File.__init__ raises: the exception leaves the `with lock` and
\* reaches the caller
NewOpenFails(t) ==
    /\ thr[t].pc = "new.open"
    /\ lock' = Unwound(lock, t)
    /\ thr' = [thr EXCEPT ![t] = Back(t)]
    /\ last' = Outcome(t, 0, FALSE)
    /\ UNCHANGED <<files, cache, lastFor>>
    /\ UNCHANGED solo

\* cache[hsh] = self with the cache full: LRUCache.__setitem__ calls
\* popitem, LRUCache.popitem takes the least recently used pair out and
\* LRUFileCache.popitem goes on to val.close()
NewStoreEvicts(t) ==
    LET k == cache.order[1]
    IN /\ thr[t].pc = "new.store"
       /\ ~CacheContains(cache, thr[t].hsh)
       /\ Len(cache.data) + 1 > CacheMaxSize
       /\ cache.order # <<>>
       /\ cache' = CacheDelItem(CacheGetItem(cache, k), k)
       /\ files' = [files EXCEPT ![CacheValue(cache, k)].evicted = TRUE]
       /\ thr' = [thr EXCEPT ![t].val = CacheValue(cache, k),
                             ![t].pc = "close.enter"]
       /\ UNCHANGED lock
       /\ UNCHANGED <<solo, hist>>

\* cache[hsh] = self with room in the cache (or the key stored already)
NewStoreInserts(t) ==
    /\ thr[t].pc = "new.store"
    /\ \/ CacheContains(cache, thr[t].hsh)
       \/ ~(Len(cache.data) + 1 > CacheMaxSize /\ cache.order # <<>>)
    /\ cache' = CacheSetItem(State, thr[t].hsh, thr[t].self).cache
    /\ thr' = [thr EXCEPT ![t].pc = "new.return"]
    /\ UNCHANGED <<files, lock>>
    /\ UNCHANGED <<solo, hist>>

\* `with lock:` of File.close, called by popitem inside File.__new__
CloseEnter(t) ==
    /\ thr[t].pc = "close.enter"
    /\ CanLock(lock, t)
    /\ lock' = Locked(lock, t)
    /\ thr' = [thr EXCEPT ![t].pc = "close.native"]
    /\ UNCHANGED <<files, cache>>
    /\ UNCHANGED <<solo, hist>>

\* h5py.File.close(self) succeeds
CloseNative(t) ==
    /\ thr[t].pc = "close.native"
    /\ files' = [files EXCEPT ![thr[t].val].valid = FALSE]
    /\ thr' = [thr EXCEPT ![t].pc = "close.loop"]
    /\ UNCHANGED <<cache, lock>>
    /\ UNCHANGED <<solo, hist>>

\* h5py.File.close(self) raises: popitem catches AttributeError only, so
\* the exception leaves File.close, popitem, __setitem__ and File.__new__
\* and reaches the caller of File(...), who gets no File
CloseNativeFails(t) ==
    /\ thr[t].pc = "close.native"
    /\ lock' = Unwound(lock, t)
    /\ thr' = [thr EXCEPT ![t] = Back(t)]
    /\ last' = Outcome(t, 0, FALSE)
    /\ UNCHANGED <<files, cache, lastFor>>
    /\ UNCHANGED solo

\* the loop of File.close over the keys of the cache
CloseKeys(t) ==
    /\ thr[t].pc = "close.loop"
    /\ cache' = CloseLoop(cache, CacheKeys(cache), files[thr[t].val].hsh)
    /\ thr' = [thr EXCEPT ![t].pc = "close.exit"]
    /\ UNCHANGED <<files, lock>>
    /\ UNCHANGED <<solo, hist>>

\* File.close leaves its `with lock`, popitem returns into __setitem__
CloseExit(t) ==
    /\ thr[t].pc = "close.exit"
    /\ lock' = Unlock(lock)
    /\ thr' = [thr EXCEPT ![t].pc = "new.store", ![t].val = 0]
    /\ UNCHANGED <<files, cache>>
    /\ UNCHANGED <<solo, hist>>

\* self = cache[hsh]
NewHit(t) ==
    /\ thr[t].pc = "new.hit"
    /\ cache' = CacheGetItem(cache, thr[t].hsh)
    /\ thr' = [thr EXCEPT ![t].self = CacheValue(cache, thr[t].hsh),
                          ![t].entry = NoCache, ![t].pc = "new.return"]
    /\ UNCHANGED <<files, lock>>
    /\ UNCHANGED <<solo, hist>>

\* self.hsh = hsh; return self (leaving the `with lock`)
NewReturn(t) ==
    /\ thr[t].pc = "new.return"
    /\ files' = [files EXCEPT ![thr[t].self].hsh = thr[t].hsh]
    /\ lock' = Unlock(lock)
    /\ thr' = [thr EXCEPT ![t] = Back(t)]
    /\ last' = Outcome(t, thr[t].self, TRUE)
    /\ lastFor' = IF thr[t].skip THEN lastFor
                  ELSE [lastFor EXCEPT ![Desc(thr[t].call)] = thr[t].self]
    /\ UNCHANGED cache
    /\ UNCHANGED solo

\* a step of thread t inside a call
ThreadStep(t) ==
    \/ NewEnter(t)
    \/ NewOpen(t)
    \/ NewOpenFails(t)
    \/ NewStoreEvicts(t)
    \/ NewStoreInserts(t)
    \/ CloseEnter(t)
    \/ CloseNative(t)
    \/ CloseNativeFails(t)
    \/ CloseKeys(t)
    \/ CloseExit(t)
    \/ NewHit(t)
    \/ NewReturn(t)

\* ---------------------------------------------------------- specifications
\* the registry: cached acquisitions and explicit closes
Next ==
    \/ \E call \in Calls : Acquire(call) /\ UNCHANGED aux
    \/ \E id \in 1..Len(files) : Close(id) /\ UNCHANGED aux

Spec == Init /\ [][Next]_vars

\* filling the empty cache with pairwise distinct descriptors
NextFill == \E call \in Calls : AcquireFresh(call) /\ UNCHANGED aux

SpecFill == Init /\ [][NextFill]_vars

\* the registry with acquisitions that bypass the cache, and closes of the
\* bypassing handles
NextBypass ==
    \/ \E call \in InputCalls : Acquire(call) /\ UNCHANGED aux
    \/ \E id \in 1..Len(files) : files[id].skip_cache /\ Close(id) /\ UNCHANGED aux

SpecBypass == Init /\ [][NextBypass]_vars

\* datasets: cached acquisitions, closes, and the dataset looked up through
\* the first File and accessed
NextDataset ==
    \/ \E call \in Calls : Acquire(call) /\ UNCHANGED aux
    \/ \E id \in 1..Len(files) : Close(id) /\ UNCHANGED aux
    \/ Len(files) >= 1 /\ FileGetItem(1, "d") /\ UNCHANGED aux
    \/ DatasetGetAttr /\ UNCHANGED aux
    \/ DatasetGetItem /\ UNCHANGED aux

SpecDataset == Init /\ [][NextDataset]_vars

\* groups: cached acquisitions, closes, and the groups looked up through the
\* first File
NextGroup ==
    \/ \E call \in Calls : Acquire(call) /\ UNCHANGED aux
    \/ \E id \in 1..Len(files) : Close(id) /\ UNCHANGED aux
    \/ Len(files) >= 1 /\ FileGetItem(1, "g") /\ UNCHANGED aux
    \/ GroupGetItem("h") /\ UNCHANGED aux

SpecGroup == Init /\ [][NextGroup]_vars

\* pickling of files, groups and datasets
NextPickle ==
    \/ \E call \in InputCalls : Len(files) < PickleFiles /\ Acquire(call) /\ UNCHANGED aux
    \/ \E id \in 1..Len(files), name \in {"g", "d"} : FileGetItem(id, name) /\ UNCHANGED aux
    \/ \E name \in {"h", "d"} : GroupGetItem(name) /\ UNCHANGED aux
    \/ \E id \in 1..Len(files) : PickleFile(id) /\ UNCHANGED aux
    \/ PickleGroup /\ UNCHANGED aux
    \/ PickleDataset /\ UNCHANGED aux

SpecPickle == Init /\ [][NextPickle]_vars

\* File pickles that are loaded again in the same process
NextLoads ==
    \/ \E call \in Calls :
          Len(files) < LoadFiles /\ Acquire(call) /\ UNCHANGED aux
    \/ \E id \in 1..Len(files) : Close(id) /\ UNCHANGED aux
    \/ \E id \in 1..Len(files) : PickleFile(id) /\ UNCHANGED aux
    \/ UnpickleFile /\ UNCHANGED aux

SpecLoads == Init /\ [][NextLoads]_vars

\* Group and Dataset pickles that are loaded again in the same process; the
\* proxies are looked up through the first File
NextLoadsProxy ==
    \/ \E call \in Calls :
          Len(files) < ProxyFiles /\ Acquire(call) /\ UNCHANGED aux
    \/ \E id \in 1..Len(files) : Close(id) /\ UNCHANGED aux
    \/ \E name \in {"g", "d"} :
          Len(files) >= 1 /\ FileGetItem(1, name) /\ UNCHANGED aux
    \/ PickleGroup /\ UNCHANGED aux
    \/ PickleDataset /\ UNCHANGED aux
    \/ UnpickleGroup /\ UNCHANGED aux
    \/ UnpickleDataset /\ UNCHANGED aux

SpecLoadsProxy == Init /\ [][NextLoadsProxy]_vars

\* threads that call File(...) concurrently
NextThreads ==
    \/ \E t \in Threads, call \in ThreadCalls : ThreadCall(t, call)
    \/ \E t \in Threads : ThreadStep(t)

SpecThreads == Init /\ [][NextThreads]_vars

\* the same where the threads inside a call are not all left standing for
\* ever while one of them can take a step
SpecThreadsFair ==
    SpecThreads /\ WF_vars(\E t \in Threads : ThreadStep(t))

\* the registry with the record of the acquisitions
NextRecorded ==
    \/ \E call \in Calls : RecordedAcquire(call)
    \/ \E id \in 1..Len(files) : RecordedClose(id)

SpecRecorded == Init /\ [][NextRecorded]_vars

\* chains of group lookups from several roots, the pickles of the groups,
\* and the close of the first File
NextChain ==
    \/ \E call \in Calls :
          Len(files) < ProxyFiles /\ Acquire(call) /\ UNCHANGED aux
    \/ Len(files) >= 1 /\ Close(1) /\ UNCHANGED aux
    \/ \E id \in 1..Len(files) : FileGetItem(id, "g") /\ UNCHANGED aux
    \/ GroupGetItem("h") /\ UNCHANGED aux
    \/ PickleGroup /\ UNCHANGED aux

SpecChain == Init /\ [][NextChain]_vars

\* ------------------------------------------------------------------ claims
IsAcquire == last.op \in {"File", "Dataset.getattr", "Dataset.getitem"}

IsCachedAcquire == IsAcquire /\ ~last.skip

\* C1: a cached File(d) that follows a cached File(d) whose File has been
\* neither evicted nor closed in between returns that same File and performs
\* no native open.
C1_SameHandle ==
    (IsCachedAcquire /\ last.priorState = "open")
        => (last.ret = last.prior /\ ~last.opened)

C1_Witness ==
    /\ IsCachedAcquire
    /\ last.priorState = "open"
    /\ last.ret = last.prior
    /\ ~last.opened
    /\ Len(files) >= 2

\* C2: the File a cached File(d) returns was opened for d: it is never a
\* File that was opened for (and returned to) a descriptor with another path.
C2_NoAlias ==
    IsCachedAcquire
        => PathOf(files[last.ret].init_args) = PathOf(last.desc.args)

\* C3: after f.close() of a cache-managed File f, f is closed and no cache
\* entry maps to f.
C3_ReleaseRemoves ==
    (last.op = "close" /\ ~files[last.ret].skip_cache)
        => (~files[last.ret].valid /\ last.ret \notin CacheValues(cache))

\* C4: the File returned by a cached File(d) is open when it is returned.
C4_ReturnedOpen == IsCachedAcquire => files[last.ret].valid

\* C5: from the empty cache, once CacheMaxSize + 1 pairwise distinct
\* descriptors have been acquired, exactly one File has been evicted; it is
\* closed and not in the cache, and the other CacheMaxSize Files are open and
\* cached.
Acquired == { d \in Calls : lastFor[d] # 0 }

Evicted == { i \in 1..Len(files) : files[i].evicted }

C7_DatasetSurvives ==
    (last.op \in {"Dataset.getattr", "Dataset.getitem"}
        /\ files[ds.dataset].evicted)
        => (last.ok /\ files[last.ret].valid)

C9_BypassNeverCached ==
    /\ \A i \in CacheValues(cache) : ~files[i].skip_cache
    /\ (last.op = "File" /\ last.skip)
           => (last.opened /\ last.ret = Len(files)
               /\ files[last.ret].skip_cache)
    /\ IsCachedAcquire => ~files[last.ret].skip_cache

C9_Witness ==
    /\ last.op = "File"
    /\ last.skip
    /\ last.opened
    /\ \E i \in CacheValues(cache) :
          /\ i # last.ret
          /\ files[i].valid
          /\ files[i].init_args = files[last.ret].init_args
          /\ files[i].init_kwargs = files[last.ret].init_kwargs

\* C10: what is pickled for a File is its open arguments and skip_cache, for
\* a Group its name and the pickle of its root File, for a Dataset the file
\* name, the mode and the dataset name: never a native handle (the dataset
\* attribute, a File's id) and never a cache key (hsh).
ArgsOnly(newargs) ==
    /\ DOMAIN newargs = {"args", "kwargs"}
    /\ \A i \in 1..Len(newargs.args) : newargs.args[i].t = "str"
    /\ \A i \in 1..Len(newargs.kwargs) :
          /\ newargs.kwargs[i][1] \in {"mode", "skip_cache"}
          /\ newargs.kwargs[i][2].t \in {"str", "bool"}

FilePickleOk(p) ==
    /\ DOMAIN p = {"cls", "newargs", "state"}
    /\ p.state = NoState
    /\ ArgsOnly(p.newargs)

C10_DescriptorOnly ==
    /\ pkl.cls = "File" => FilePickleOk(pkl)
    /\ pkl.cls = "Group" =>
          /\ DOMAIN pkl.state = {"name", "file"}
          /\ FilePickleOk(pkl.state.file)
    /\ pkl.cls = "Dataset" =>
          DOMAIN pkl.state = {"file_name", "file_mode", "dataset_name"}

C10_Witness ==
    /\ pkl.cls = "Dataset"
    /\ pkl.state.dataset_name = <<"g", "d">>
    /\ ds.dataset # 0

\* C11: loading the pickle of a cache-managed File goes through File.__new__
\* with skip_cache=False: the File returned is the one the cache holds for
\* the descriptor, and when the File last returned for the descriptor was
\* neither evicted nor closed the load returns that File and opens nothing
\* (so two loads in a row give one File and at most one native open).
C11_LoadsDeduplicated ==
    (last.op = "loads.File" /\ ~last.skip)
        => /\ ~files[last.ret].skip_cache
           /\ CacheContains(cache, arghash(last.desc.args, last.desc.kwargs))
           /\ CacheValue(cache, arghash(last.desc.args, last.desc.kwargs))
                  = last.ret
           /\ last.priorState = "open"
                  => (last.ret = last.prior /\ ~last.opened)

\* a load that is a hit on the File an earlier load (or acquisition) had to
\* open because the pickled File was evicted
C11_Witness ==
    /\ last.op = "loads.File"
    /\ ~last.skip
    /\ last.priorState = "open"
    /\ last.ret = last.prior
    /\ ~last.opened
    /\ \E i \in 1..Len(files) :
          /\ files[i].evicted
          /\ files[i].init_args = files[last.ret].init_args
          /\ files[i].init_kwargs = files[last.ret].init_kwargs

\* C12: loading the pickle of a Dataset or Group that was looked up from a
\* root acquired with descriptor d succeeds and resolves to the File the
\* cache holds for d, which is the File a cached File(d) returns.
C12_RoundTrip ==
    [][ /\ (/\ last'.op = "loads.Dataset"
            /\ ds.dataset # 0
            /\ pkl = [cls |-> "Dataset", state |-> DatasetGetState(ds)])
           => LET root == files[ds.dataset]
                  k == arghash(root.init_args, root.init_kwargs)
              IN /\ last'.ok
                 /\ CacheContains(cache', k)
                 /\ CacheValue(cache', k) = last'.ret
        /\ (last'.op = "loads.Group" /\ pkl.cls = "Group")
           => LET d == Desc(pkl.state.file.newargs)
                  k == arghash(d.args, d.kwargs)
              IN /\ last'.ok
                 /\ CacheContains(cache', k)
                 /\ CacheValue(cache', k) = last'.ret ]_vars

\* C13: the check, the open and the insertion of File.__new__ run with the
\* lock held by the calling thread; whatever the interleaving, a cached
\* File(d) that returns while the File last returned for d is neither
\* evicted nor closed returns that File and has opened nothing, and no two
\* Files in the cache's care were opened for the same arguments.
InNew(t) == thr[t].pc \in {"new.open", "new.store", "new.hit", "new.return"}

InClose(t) == thr[t].pc \in {"close.native", "close.loop", "close.exit"}

C13_OneOpen ==
    /\ \A t \in Threads : (InNew(t) \/ InClose(t)) => lock.owner = t
    /\ (last.op = "File" /\ ~last.skip /\ last.ok /\ last.priorState = "open")
           => (last.ret = last.prior /\ ~last.opened)
    /\ \A i, j \in 1..Len(files) :
          (/\ i # j
           /\ ~files[i].skip_cache /\ ~files[j].skip_cache
           /\ ~files[i].evicted /\ ~files[j].evicted)
              => \/ files[i].init_args # files[j].init_args
                 \/ files[i].init_kwargs # files[j].init_kwargs

\* a thread has returned from File(d) with the File another thread opened
\* for d, while the other thread is inside its next call
C13_Witness ==
    /\ last.op = "File"
    /\ ~last.skip
    /\ last.ok
    /\ last.priorState = "open"
    /\ last.ret = last.prior
    /\ ~last.opened
    /\ Len(files) = 1
    /\ \A t \in Threads : thr[t].calls >= 1
    /\ \E t \in Threads : InNew(t)

\* C15: the File.close that an insertion into the full cache brings about
\* is called by the inserting thread while it holds the lock and runs with
\* the lock held twice by that thread; once a thread has reached that close,
\* the lock is eventually free again with no thread left inside the close.
C15_NestedRelease ==
    /\ [](\A t \in Threads :
            /\ thr[t].pc = "close.enter" => lock = [owner |-> t, count |-> 1]
            /\ InClose(t) => lock = [owner |-> t, count |-> 2])
    /\ (\E t \in Threads : thr[t].pc = "close.enter")
           ~> (lock = NoLock /\ \A t \in Threads : ~InClose(t))

C15_Witness ==
    \E t \in Threads :
        /\ thr[t].pc = "close.loop"
        /\ lock = [owner |-> t, count |-> 2]
        /\ Len(cache.data) = CacheMaxSize - 1

\* C16: a File(...) that has opened its File returns it without an error,
\* whatever becomes of the close of the File its insertion evicts.
C16_CloseErrorSwallowed ==
    (last.op = "File" /\ last.opened) => (last.ok /\ last.ret # 0)

C14_EvictsLeastRecentlyAcquired ==
    [][ \A i \in 1..Len(files) :
          (~files[i].evicted /\ files'[i].evicted)
              => (recency # <<>> /\ CacheValue(cache, recency[1]) = i) ]_vars

\* C17: no two open cache-managed Files have the same path and mode.
C17_OnePerDescriptor ==
    \A i, j \in 1..Len(files) :
        (/\ i # j
         /\ files[i].valid /\ files[j].valid
         /\ ~files[i].skip_cache /\ ~files[j].skip_cache
         /\ PathOf(files[i].init_args) = PathOf(files[j].init_args))
            => GivenMode(files[i]) # GivenMode(files[j])

\* C19: a Group reached by lookups from the File R (the File its native id
\* belongs to) has R as its file_info at every depth, and its pickle is its
\* name with the pickle of R.
C19_RootBackReference ==
    /\ grp # NoGroup => grp.file_info = grp.id
    /\ (pkl.cls = "Group" /\ last.op = "pickle" /\ last.ok)
           => pkl.state = [name |-> grp.name,
                           file |-> FileReduce(files[grp.id])]

C19_Witness ==
    /\ grp.name = <<"g", "h">>
    /\ grp.id = 2
    /\ last.op = "pickle"
    /\ last.ok
    /\ pkl.cls = "Group"
    /\ pkl.state.name = <<"g", "h">>
    /\ pkl.state.file.newargs.args = files[2].init_args
    /\ files[1].init_args # files[2].init_args

\* C20: f.close() of a File opened with skip_cache=True leaves the pairs of
\* the cache and every other File as they were.
C20_BypassCloseFrame ==
    [][ (last'.op = "close" /\ files[last'.ret].skip_cache)
           => /\ cache'.data = cache.data
              /\ Len(files') = Len(files)
              /\ \A i \in 1..Len(files) :
                    i # last'.ret => files'[i] = files[i] ]_vars

\* the File closed was opened outside the cache for the arguments of an open
\* File that the cache holds under the same key
C20_Witness ==
    /\ last.op = "close"
    /\ files[last.ret].skip_cache
    /\ ~files[last.ret].valid
    /\ \E i \in CacheValues(cache) :
          /\ files[i].valid
          /\ files[i].hsh = files[last.ret].hsh
          /\ files[i].init_args = files[last.ret].init_args
          /\ files[i].init_kwargs = files[last.ret].init_kwargs
          /\ CacheContains(cache, files[i].hsh)
          /\ CacheValue(cache, files[i].hsh) = i

====
